---------------------------- MODULE Spec2Model ----------------------------
(***************************************************************************)
(* A model of the MCP Docker Executor: the execution engine                *)
(* (DockerManager.execute_code), the /execute and /executions endpoints of *)
(* the FastAPI server, and the streaming execution tracker.                *)
(*                                                                         *)
(* Scheduling.  Every handler is an "async def" run by one asyncio event   *)
(* loop.  execute_code awaits only _prepare_code_execution, which never    *)
(* suspends, and its container-engine calls are blocking calls, so a       *)
(* handler that has started runs to its return before the loop runs any    *)
(* other handler or task.  The model keeps the steps of a handler apart    *)
(* (one action per engine call) and lets only the wall clock move between  *)
(* them: pc # "idle" is the loop being held by the running handler.        *)
(***************************************************************************)
EXTENDS Integers, Sequences, FiniteSets, TLC

(* ------------------------------ bounds -------------------------------- *)

\* execute_code calls made through the /execute endpoint
MaxCalls == 2
\* the wall clock int(time.time()) runs over 0..MaxClock
MaxClock == 1
\* start_streaming_execution calls
MaxStreams == 2
\* images the engine holds
MaxImages == 3

(* --------------------------- value domains ---------------------------- *)

\* models.py:11-17, the Language enumeration
Languages == {"python", "node", "csharp", "bash"}

\* The language of the requests the endpoints receive.  Request validation
\* admits only members of Language, and execute_code treats all four alike.
RequestLanguages == {"python"}

\* the language of a request built without validation (model_construct)
UnvalidatedLanguage == "ruby"

\* A container id of the engine is a string; id[:8] is its prefix.  An id is
\* modelled by its first eight characters and the rest.  The engine never
\* gives one id to two containers: the rest of the id of the n-th container
\* it creates is n, and the prefix is any of IdPrefixes.
IdPrefixes == {"aaaaaaaa", "bbbbbbbb"}

\* container.id of a container object that carries no id
NoId == [prefix |-> "", rest |-> 0]

\* Python's None in a field of strings
None == "None"

\* Python's None in the exit_code field (exit codes are 0..255)
NoExit == -1

\* bytes returned by exec_run: empty, valid UTF-8, or not UTF-8
Outputs == {"", "utf8", "not-utf8"}

ExitCodes == {0, 1}

\* f"exec_{int(time.time())}_{tag}" as the pair of its two varying parts
ExecId(ts, tag) == [ts |-> ts, tag |-> tag]

NoExecId == [ts |-> -1, tag |-> ""]

NoResult == [exit_code |-> NoExit, output |-> ""]

\* Python's None in a field of times
NoTime == -1

NoResponse ==
    [execution_id |-> NoExecId, status |-> None, stdout |-> None, stderr |-> None,
     exit_code |-> NoExit, error_message |-> None, execution_time_seconds |-> NoTime]

VARIABLES
    clock,              \* int(time.time())
    created,            \* the number of containers the engine has created
    containers,         \* the engine's containers: handle -> [id, state]
    active_containers,  \* DockerManager.active_containers: execution id -> handle
    executions,         \* MCPDockerExecutor.executions: execution id -> stored dict
    pc,                 \* position of the running handler, "idle" when none runs
    caller,             \* who called execute_code: "endpoint", "task" or "direct"
    task,               \* the running _monitor_streaming_execution task, 0 when none
    execution_data,     \* _monitor_streaming_execution: execution_data (a reference)
    request,            \* execute_code: request (its language)
    container,          \* execute_code: container (a handle, 0 when unbound)
    execution_id,       \* execute_code: execution_id (NoExecId when unbound)
    result,             \* execute_code: result of exec_run
    response,           \* the ExecuteCodeResponse execute_code returned
    fault,              \* str(e) of the exception execute_code caught, None if none
    returned,           \* the responses the /execute endpoint has returned, in order
    streaming_executions, \* DockerManager.streaming_executions: id -> dict object
    heap,               \* the dict objects of streaming_executions, by reference
    tasks,              \* the asyncio tasks of _monitor_streaming_execution
    log_pc,             \* generate_logs: position of the generator, "none" before
    log_id,             \* generate_logs: execution_id of the enclosing endpoint call
    log_last,           \* generate_logs: the event it yielded last, "" when none
    images,             \* the engine's images: image id -> [from, package]
    tagged,             \* the engine's image tags: tag -> image id
    running,            \* containers other clients run: id -> [image, state, installed]
    call,               \* the request of the last create_image or install_package call
    build_logs,         \* create_image: build_logs
    produced,           \* the log lines the engine produced in the last build
    picked,             \* _install_package_in_container: container ("" when unbound)
    ops,                \* the engine calls the last call has made
    before,             \* the engine's images and tags when the last call was entered
    answer,             \* what the last call returned, NoAnswer while it runs
    given,              \* the arguments of the last construction or generation
    made,               \* what the last construction or generation gave
    files,              \* the upload directory: path -> file
    uploaded,           \* the uploads made: file id -> [filename, content, language]
    file_reply,         \* what the last file operation returned
    submitted           \* execute_uploaded_file: execute_request

vars ==
    <<clock, created, containers, active_containers, executions, pc, caller, task,
      execution_data, request, container, execution_id, result, response, fault,
      returned, streaming_executions, heap, tasks, log_pc, log_id, log_last,
      images, tagged, running, call, build_logs, produced, picked, ops, before,
      answer, given, made, files, uploaded, file_reply, submitted>>

\* the locals of the running execute_code call
frame == <<request, container, execution_id, result, response, fault>>

\* the state of the container engine
engine == <<created, containers>>

\* the caller of the running execute_code call
who == <<caller, task, execution_data>>

\* the state of the streaming tracker
tracker == <<streaming_executions, heap, tasks>>

\* the generator of the log stream endpoint
logstream == <<log_pc, log_id, log_last>>

\* the images of the engine, and the handlers that build and install
imaging ==
    <<images, tagged, running, call, build_logs, produced, picked, ops, before, answer>>

\* the request models and the Dockerfile generator, applied to arguments
construction == <<given, made>>

\* the file manager and the handler that executes an uploaded file
filestore == <<files, uploaded, file_reply, submitted>>

\* the parts of the program added to the execution engine and the tracker
further == <<construction, filestore>>

\* what the execution engine and the tracker leave alone
beside == <<logstream, imaging, further>>

\* no create_image or install_package call has been made
NoCall == [op |-> "none"]

\* no response yet
NoAnswer == [kind |-> "none"]

\* Python's None in a field of image ids (the engine's ids are 1, 2, ...)
NoImage == 0

\* Python's None in a field of image names
NoTag == [name |-> None, safe |-> << >>, ts |-> NoTime]

\* nothing has been constructed or generated
NoGiven == [kind |-> "none"]

NoMade == [kind |-> "none"]

\* no file operation has returned
NoFileReply == [kind |-> "none"]

\* execute_uploaded_file has built no request
NoSubmitted == [language |-> None, code |-> << >>]

(* ------------------------------ helpers ------------------------------- *)

\* d[k] = v of a Python dict
Put(d, k, v) == [x \in DOMAIN d \cup {k} |-> IF x = k THEN v ELSE d[x]]

\* del d[k] of a Python dict
Del(d, k) == [x \in DOMAIN d \ {k} |-> d[x]]

EmptyDict == [x \in {} |-> 0]

Init ==
    /\ clock = 0
    /\ created = 0
    /\ containers = EmptyDict
    /\ active_containers = EmptyDict
    /\ executions = EmptyDict
    /\ pc = "idle"
    /\ caller = "none"
    /\ task = 0
    /\ execution_data = 0
    /\ request = None
    /\ container = 0
    /\ execution_id = NoExecId
    /\ result = NoResult
    /\ response = NoResponse
    /\ fault = None
    /\ returned = << >>
    /\ streaming_executions = EmptyDict
    /\ heap = << >>
    /\ tasks = << >>
    /\ log_pc = "none"
    /\ log_id = ""
    /\ log_last = ""
    /\ images = EmptyDict
    /\ tagged = EmptyDict
    /\ running = EmptyDict
    /\ call = NoCall
    /\ build_logs = << >>
    /\ produced = << >>
    /\ picked = ""
    /\ ops = {}
    /\ before = [images |-> EmptyDict, tagged |-> EmptyDict]
    /\ answer = NoAnswer
    /\ given = NoGiven
    /\ made = NoMade
    /\ files = EmptyDict
    /\ uploaded = EmptyDict
    /\ file_reply = NoFileReply
    /\ submitted = NoSubmitted

\* time.time() advances; it may do so between any two steps of a handler
Tick ==
    /\ clock < MaxClock
    /\ clock' = clock + 1
    /\ UNCHANGED <<beside, engine, active_containers, executions, pc, who, frame,
                   returned, tracker>>

(* ------------------- DockerManager.execute_code ----------------------- *)

\* docker_manager.py:249-255, the response of the except branch
ExceptionResponse(msg) ==
    [execution_id |-> ExecId(clock, "error"), status |-> "failed", stdout |-> None,
     stderr |-> None, exit_code |-> NoExit, error_message |-> msg,
     execution_time_seconds |-> NoTime]

\* Except with the exception leaving execute_code instead of being caught
ExceptEscapes(msg) ==
    /\ fault' = msg
    /\ response' = NoResponse
    /\ pc' = "raised"

\* An exception with str(e) = msg is raised inside the try block: control
\* moves to the except branch, which returns the failed response.
Except(msg) ==
    /\ fault' = msg
    /\ response' = ExceptionResponse(msg)
    /\ pc' = "returned"

\* PrepareSupported with a command for the unvalidated language as well
PrepareAnything(language) == language \in Languages \cup {UnvalidatedLanguage}

\* docker_manager.py:257-299: a command for the four languages, ValueError otherwise
PrepareSupported(language) == language \in Languages

\* execute_code is entered with a request: locals are fresh
Enter(by, req) ==
    /\ pc = "idle"
    /\ pc' = "prepare"
    /\ caller' = by
    /\ request' = req
    /\ container' = 0
    /\ execution_id' = NoExecId
    /\ result' = NoResult
    /\ response' = NoResponse
    /\ fault' = None

\* the handler that called execute_code returns: its locals are gone
Leave ==
    /\ pc' = "idle"
    /\ caller' = "none"
    /\ request' = None
    /\ container' = 0
    /\ execution_id' = NoExecId
    /\ result' = NoResult
    /\ response' = NoResponse
    /\ fault' = None

\* line 200: command, temp_file = await self._prepare_code_execution(request)
PrepareCodeExecution ==
    /\ pc = "prepare"
    /\ IF PrepareSupported(request)
          THEN /\ pc' = "create"
               /\ UNCHANGED <<response, fault>>
          ELSE Except("Unsupported language")
    /\ UNCHANGED <<beside, clock, engine, active_containers, executions, who, request,
                   container, execution_id, result, returned, tracker>>

\* The ids the engine can give a new container.  containers.create returns
\* the container it has inspected, which always carries its id.
FreshIds == {[prefix |-> p, rest |-> created + 1] : p \in IdPrefixes}

\* lines 203-219: container = self.client.containers.create(...)
ContainersCreate ==
    /\ pc = "create"
    /\ \/ \E id \in FreshIds :
             /\ created' = created + 1
             /\ containers' = Put(containers, created + 1, [id |-> id, state |-> "created"])
             /\ container' = created + 1
             /\ pc' = "register"
             /\ UNCHANGED <<response, fault>>
       \/ /\ Except("create failed")
          /\ UNCHANGED <<created, containers, container>>
    /\ UNCHANGED <<beside, clock, active_containers, executions, who, request, execution_id,
                   result, returned, tracker>>

\* line 221: container.id[:8] if container.id else "unknown"
ContainerIdOf(id) == IF id # NoId THEN id.prefix ELSE "unknown"

\* lines 221-223: the execution id is made and the container is registered
Register ==
    /\ pc = "register"
    /\ LET eid == ExecId(clock, ContainerIdOf(containers[container].id))
       IN /\ execution_id' = eid
          /\ active_containers' = Put(active_containers, eid, container)
    /\ pc' = "start"
    /\ UNCHANGED <<beside, clock, engine, executions, who, request, container, result,
                   response, fault, returned, tracker>>

\* SetState reaching every container the engine holds
SetStateAll(h, st) == [x \in DOMAIN containers |-> [containers[x] EXCEPT !.state = st]]

\* container.start() and container.stop() act on the container of the handle
SetState(h, st) == [containers EXCEPT ![h].state = st]

\* ContainerStart with exec_run reached before the container has been started
ContainerStartLate ==
    /\ pc = "start"
    /\ pc' = "exec"
    /\ UNCHANGED <<beside, clock, engine, active_containers, executions, who, frame,
                   returned, tracker>>

\* line 226: container.start()
ContainerStart ==
    /\ pc = "start"
    /\ \/ /\ containers' = SetState(container, "running")
          /\ pc' = "exec"
          /\ UNCHANGED <<response, fault>>
       \/ /\ Except("start failed")
          /\ UNCHANGED containers
    /\ UNCHANGED <<beside, clock, created, active_containers, executions, who, request, container,
                   execution_id, result, returned, tracker>>

\* line 229: result = container.exec_run(["bash", "-c", command], user="root")
ExecRun ==
    /\ pc = "exec"
    /\ \/ \E code \in ExitCodes, out \in Outputs :
             /\ result' = [exit_code |-> code, output |-> out]
             /\ pc' = "stop"
             /\ UNCHANGED <<response, fault>>
       \/ /\ Except("exec_run failed")
          /\ UNCHANGED result
    /\ UNCHANGED <<beside, clock, engine, active_containers, executions, who, request,
                   container, execution_id, returned, tracker>>

\* line 232: container.stop()
ContainerStop ==
    /\ pc = "stop"
    /\ \/ /\ containers' = SetState(container, "exited")
          /\ pc' = "remove"
          /\ UNCHANGED <<response, fault>>
       \/ /\ Except("stop failed")
          /\ UNCHANGED containers
    /\ UNCHANGED <<beside, clock, created, active_containers, executions, who, request, container,
                   execution_id, result, returned, tracker>>

\* line 233: container.remove()
ContainerRemove ==
    /\ pc = "remove"
    /\ \/ /\ containers' = Del(containers, container)
          /\ pc' = "unregister"
          /\ UNCHANGED <<response, fault>>
       \/ /\ Except("remove failed")
          /\ UNCHANGED containers
    /\ UNCHANGED <<beside, clock, created, active_containers, executions, who, request, container,
                   execution_id, result, returned, tracker>>

\* StatusOf with the exit code compared the wrong way round
StatusOfInverted(code) == IF code # 0 THEN "completed" ELSE "failed"

\* line 242: COMPLETED if result.exit_code == 0 else FAILED
StatusOf(code) == IF code = 0 THEN "completed" ELSE "failed"

\* bytes.decode(): text for valid UTF-8, UnicodeDecodeError otherwise
Decodes(out) == out # "not-utf8"

\* line 237: result.output.decode() if result.output else ""
Stdout(out) == IF out # "" THEN out ELSE ""

\* lines 240-247: the response of the success path (error_message keeps its default)
SuccessResponse ==
    [execution_id |-> execution_id, status |-> StatusOf(result.exit_code),
     stdout |-> Stdout(result.output), stderr |-> "", exit_code |-> result.exit_code,
     error_message |-> None, execution_time_seconds |-> 0]

\* lines 234-247: del self.active_containers[execution_id], parse, return
Unregister ==
    /\ pc = "unregister"
    /\ IF execution_id \notin DOMAIN active_containers
          THEN /\ Except("KeyError")
               /\ UNCHANGED active_containers
          ELSE /\ active_containers' = Del(active_containers, execution_id)
               /\ IF result.output # "" /\ ~Decodes(result.output)
                     THEN Except("UnicodeDecodeError")
                     ELSE /\ response' = SuccessResponse
                          /\ pc' = "returned"
                          /\ UNCHANGED fault
    /\ UNCHANGED <<beside, clock, engine, executions, who, request, container,
                   execution_id, result, returned, tracker>>

\* the steps of a running execute_code call (docker_manager.py:196-255)
ExecuteCodeStep ==
    \/ PrepareCodeExecution
    \/ ContainersCreate
    \/ Register
    \/ ContainerStart
    \/ ExecRun
    \/ ContainerStop
    \/ ContainerRemove
    \/ Unregister

(* ------------------- server.py: /execute, /executions ------------------ *)

\* server.py:131-139: the dict stored under result.execution_id
StoredRecord(r) ==
    [status |-> r.status, stdout |-> r.stdout, stderr |-> r.stderr,
     exit_code |-> r.exit_code, error_message |-> r.error_message,
     execution_time_seconds |-> r.execution_time_seconds, timestamp |-> clock]

\* server.py:121-128: POST /execute calls docker_manager.execute_code(request)
ExecuteEndpoint(language) ==
    /\ Len(returned) < MaxCalls
    /\ Enter("endpoint", language)
    /\ UNCHANGED <<beside, clock, engine, active_containers, executions, task,
                   execution_data, returned, tracker>>

\* server.py:130-141: the result is stored and returned to the client
StoreExecution ==
    /\ pc = "returned"
    /\ caller = "endpoint"
    /\ executions' = Put(executions, response.execution_id, StoredRecord(response))
    /\ returned' = Append(returned, response)
    /\ Leave
    /\ UNCHANGED <<beside, clock, engine, active_containers, task, execution_data, tracker>>

\* execute_code is called directly, as the tests and mcp_server.py call it,
\* with a request that was built without validation
ExecuteUnvalidated ==
    /\ Enter("direct", UnvalidatedLanguage)
    /\ UNCHANGED <<beside, clock, engine, active_containers, executions, task,
                   execution_data, returned, tracker>>

\* the direct caller has its response
ReturnDirect ==
    /\ pc = "returned"
    /\ caller = "direct"
    /\ Leave
    /\ UNCHANGED <<beside, clock, engine, active_containers, executions, task,
                   execution_data, returned, tracker>>

\* the execution ids a client can ask for
QueryIds ==
    {ExecId(ts, tag) : ts \in 0..MaxClock, tag \in IdPrefixes \cup {"unknown", "error"}}

NotFound(x) == [kind |-> "404", id |-> x]

\* server.py:144-153: GET /executions/{execution_id}
ExecutionResult(x) ==
    IF x \notin DOMAIN executions
       THEN NotFound(x)
       ELSE [kind |-> "result", id |-> x, body |-> executions[x]]

\* The handler reads the state and changes none of it; it is served when no
\* other handler holds the event loop.
GetExecutionResult(x) ==
    /\ pc = "idle"
    /\ ExecutionResult(x).kind \in {"404", "result"}
    /\ UNCHANGED vars

NextExec ==
    \/ Tick
    \/ \E language \in RequestLanguages : ExecuteEndpoint(language)
    \/ ExecuteUnvalidated
    \/ ExecuteCodeStep
    \/ StoreExecution
    \/ ReturnDirect
    \/ \E x \in QueryIds : GetExecutionResult(x)

Spec == Init /\ [][NextExec]_vars

(* --------------- DockerManager: streaming executions ------------------ *)

\* the execution ids start_streaming_execution is called with
StreamIds == {"stream_1", "stream_2"}

\* docker_manager.py:550-555: the dict stored for a new streaming execution
\* ("logs" is the empty list here and nothing appends to it)
NewExecutionData(req) ==
    [request |-> req, status |-> "running", start_time |-> clock,
     response |-> NoResponse, end_time |-> NoTime, error |-> None]

\* docker_manager.py:546-560: the dict is stored under execution_id, replacing
\* any dict stored there, and the monitor task is created for the event loop
\* to run later.  Nothing in the try block raises (the loop is running), so
\* the except branch of lines 562-566 is never entered.
StartStreamingExecution(id, req) ==
    /\ pc = "idle"
    /\ Len(heap) < MaxStreams
    /\ heap' = Append(heap, NewExecutionData(req))
    /\ streaming_executions' = Put(streaming_executions, id, Len(heap) + 1)
    /\ tasks' = Append(tasks, [execution_id |-> id, state |-> "scheduled"])
    /\ UNCHANGED <<beside, clock, engine, active_containers, executions, pc, who, frame,
                   returned>>

\* docker_manager.py:571-576: the task starts to run; it looks up the dict now
\* stored under its execution id and calls execute_code with its request
MonitorBegin(t) ==
    /\ t \in DOMAIN tasks
    /\ tasks[t].state = "scheduled"
    /\ IF tasks[t].execution_id \notin DOMAIN streaming_executions
          THEN /\ pc = "idle"
               /\ tasks' = [tasks EXCEPT ![t].state = "done"]
               /\ UNCHANGED <<pc, who, frame>>
          ELSE /\ tasks' = [tasks EXCEPT ![t].state = "running"]
               /\ task' = t
               /\ execution_data' = streaming_executions[tasks[t].execution_id]
               /\ Enter("task", heap[streaming_executions[tasks[t].execution_id]].request)
    /\ UNCHANGED <<beside, clock, engine, active_containers, executions, returned,
                   streaming_executions, heap>>

\* line 579: "completed" if response.status == COMPLETED else "failed"
MonitorStatus(r) == IF r.status = "completed" THEN "completed" ELSE "failed"

\* Finished without the end time being recorded
FinishedNoEndTime(d, r) == [d EXCEPT !.status = MonitorStatus(r), !.response = r]

\* Finished with the event loop given away after the status is written
FinishedStatusOnly(d, r) == [d EXCEPT !.status = MonitorStatus(r)]

\* lines 579-581: the dict the task holds gets its status, response and end time
Finished(d, r) ==
    [d EXCEPT !.status = MonitorStatus(r), !.response = r, !.end_time = clock]

\* docker_manager.py:576-581: execute_code has returned to the monitor task.
\* execute_code raises nothing, so the except branch of lines 583-587 is
\* never entered.
MonitorFinish ==
    /\ pc = "returned"
    /\ caller = "task"
    /\ heap' = [heap EXCEPT ![execution_data] = Finished(@, response)]
    /\ tasks' = [tasks EXCEPT ![task].state = "done"]
    /\ task' = 0
    /\ execution_data' = 0
    /\ Leave
    /\ UNCHANGED <<beside, clock, engine, active_containers, executions, returned,
                   streaming_executions>>

\* docker_manager.py:589-603: the snapshot get_execution_progress returns
ExecutionProgress(id) ==
    IF id \notin DOMAIN streaming_executions
       THEN [error |-> "Execution not found"]
       ELSE LET d == heap[streaming_executions[id]]
            IN [execution_id |-> id, status |-> d.status, start_time |-> d.start_time,
                end_time |-> d.end_time, response |-> d.response, error |-> d.error]

\* server.py:242-252: GET /executions/{execution_id}/progress; it reads the
\* state and changes none of it
GetExecutionProgress(id) ==
    /\ pc = "idle"
    /\ DOMAIN ExecutionProgress(id) # {}
    /\ UNCHANGED vars

\* the steps the event loop takes by itself
LoopStep ==
    \/ \E t \in 1..MaxStreams : MonitorBegin(t)
    \/ ExecuteCodeStep
    \/ MonitorFinish

NextStream ==
    \/ Tick
    \/ \E id \in StreamIds, language \in RequestLanguages :
          StartStreamingExecution(id, language)
    \/ \E t \in 1..MaxStreams : MonitorBegin(t)
    \/ ExecuteCodeStep
    \/ MonitorFinish
    \/ \E id \in StreamIds : GetExecutionProgress(id)

\* The event loop runs a task that is ready: a created task is started, and
\* a handler that has started runs to its return.
StreamSpec == Init /\ [][NextStream]_vars /\ WF_vars(LoopStep)

(* ------------------- server: the log stream endpoint ------------------- *)

\* the execution ids the progress and stream endpoints are asked about
AskedIds == StreamIds \cup {"never_started"}

\* "if not progress" (server.py:249, 264): a Python dict is false only when
\* it is empty
Falsy(progress) == DOMAIN progress = {}

\* progress.get("status") (server.py:267): None when the dict has no such key
StatusIn(progress) ==
    IF "status" \in DOMAIN progress THEN progress.status ELSE None

\* json.dumps(progress) (server.py:268, 271): the encoder of the standard
\* library raises TypeError on a value that is no dict, list, str, number,
\* bool or None, which the ExecuteCodeResponse object under "response" is
Dumps(progress) ==
    IF "response" \in DOMAIN progress /\ progress.response # NoResponse
       THEN "TypeError"
       ELSE IF "status" \in DOMAIN progress THEN progress.status ELSE "error"

\* server.py:248-252: what GET /executions/{execution_id}/progress answers:
\* HTTPException(404) on a false progress, the progress itself otherwise
ProgressReply(id) ==
    LET progress == ExecutionProgress(id)
    IN IF Falsy(progress)
          THEN [kind |-> "404", detail |-> "Execution not found"]
          ELSE [kind |-> "200", body |-> progress]

\* server.py:255-281: GET /executions/{execution_id}/stream returns a
\* StreamingResponse over generate_logs(), which the server then iterates
StreamExecutionLogs(id) ==
    /\ pc = "idle"
    /\ log_pc = "none"
    /\ log_pc' = "poll"
    /\ log_id' = id
    /\ UNCHANGED <<imaging, further, clock, engine, active_containers, executions, pc, who,
                   frame, returned, tracker, log_last>>

\* server.py:264-265: generate_logs leaves its loop on a false progress
PollBreaks(progress) == Falsy(progress)

\* server.py:262-272: one turn of the loop of generate_logs, from the call of
\* get_execution_progress to the next suspension: the end of the generator, an
\* exception out of it, or the sleep after a yielded event
GenerateLogsPoll ==
    /\ pc = "idle"
    /\ log_pc = "poll"
    /\ LET progress == ExecutionProgress(log_id)
       IN IF PollBreaks(progress)
             THEN log_pc' = "ended" /\ UNCHANGED log_last
             ELSE IF Dumps(progress) = "TypeError"
                     THEN log_pc' = "raised" /\ UNCHANGED log_last
                     ELSE /\ log_last' = Dumps(progress)
                          /\ log_pc' = IF StatusIn(progress) \in {"completed", "failed"}
                                          THEN "ended" ELSE "sleep"
    /\ UNCHANGED <<imaging, further, clock, engine, active_containers, executions, pc, who,
                   frame, returned, tracker, log_id>>

\* server.py:272: await asyncio.sleep(1) is over
GenerateLogsWake ==
    /\ log_pc = "sleep"
    /\ log_pc' = "poll"
    /\ UNCHANGED <<imaging, further, clock, engine, active_containers, executions, pc, who,
                   frame, returned, tracker, log_id, log_last>>

\* the steps of the generator
LogStep == GenerateLogsPoll \/ GenerateLogsWake

NextLog ==
    \/ Tick
    \/ \E id \in StreamIds, language \in RequestLanguages :
          StartStreamingExecution(id, language)
    \/ \E t \in 1..MaxStreams : MonitorBegin(t)
    \/ ExecuteCodeStep
    \/ MonitorFinish
    \/ \E id \in AskedIds : StreamExecutionLogs(id)
    \/ GenerateLogsPoll
    \/ GenerateLogsWake

\* The event loop runs what is ready, and the server iterates the generator
\* of a response it is sending: a sleep of one second ends, and the turn
\* after it is taken once the loop is free.
LogSpec == Init /\ [][NextLog]_vars /\ WF_vars(LoopStep) /\ WF_vars(LogStep)

(* ------------- DockerManager: images and package installs -------------- *)

\* what the image and package handlers leave alone
apart ==
    <<engine, active_containers, executions, who, frame, returned, tracker, logstream,
      further>>

\* package_name of the install requests, a string as the sequence of its
\* characters
Packages == {<<"A", "_">>}

\* languages of the create requests; models.py:50 wants at least one
LanguageLists == {<< >>, <<"python">>}

\* image_name of the create requests
ImageNames == {None, "custom"}

\* the containers other clients of the engine run
OtherContainers == {"other_1"}

\* the log lines a build of the engine produces
LogLines == {<< >>, <<"Step 1/4">>}

\* str.lower() on one character
Lower(c) == IF c = "A" THEN "a" ELSE c

\* re.sub(r"[^a-zA-Z0-9-]", "-", name).lower() (docker_manager.py:383)
Dashed(name) ==
    [i \in DOMAIN name |->
        IF name[i] \in {"a", "b", "A", "-"} THEN Lower(name[i]) ELSE "-"]

\* re.sub(r"-+", "-", name) (docker_manager.py:384)
RECURSIVE Collapsed(_)
Collapsed(name) ==
    IF Len(name) < 2 THEN name
    ELSE IF name[1] = "-" /\ name[2] = "-" THEN Collapsed(Tail(name))
    ELSE <<name[1]>> \o Collapsed(Tail(name))

\* str.strip("-") (docker_manager.py:384)
RECURSIVE Stripped(_)
Stripped(name) ==
    IF name = << >> THEN name
    ELSE IF name[1] = "-" THEN Stripped(Tail(name))
    ELSE IF name[Len(name)] = "-" THEN Stripped(SubSeq(name, 1, Len(name) - 1))
    ELSE name

\* docker_manager.py:383-384: safe_package_name
SafePackageName(name) == Stripped(Collapsed(Dashed(name)))

\* docker_manager.py:88-89: the tag create_image builds under; a name that is
\* None or empty gives way to the generated one
ImageTag(name) ==
    IF name \in {None, ""}
       THEN [name |-> "mcp-executor", safe |-> << >>, ts |-> clock]
       ELSE [name |-> name, safe |-> << >>, ts |-> NoTime]

\* docker_manager.py:387, 396: the tag _build_image_with_package builds under
PackageTag(package) ==
    [name |-> "mcp-executor-with", safe |-> SafePackageName(package), ts |-> clock]

\* the engine: the tags of an image
TagsOf(tags, image) == {t \in DOMAIN tags : tags[t] = image}

\* the engine: what images.get(image) reports of an image, by id
ImageState(imgs, tags, image) ==
    IF image \in DOMAIN imgs
       THEN [found |-> TRUE, image |-> imgs[image], tags |-> TagsOf(tags, image)]
       ELSE [found |-> FALSE, image |-> [from |-> NoImage, package |-> << >>],
             tags |-> {}]

\* the engine: image a is image b or one of the images b was built from
RECURSIVE IsAncestor(_, _)
IsAncestor(a, b) ==
    /\ b \in DOMAIN images
    /\ \/ a = b
       \/ IsAncestor(a, images[b].from)

\* the id the engine gives the next image it builds
NextImage == Cardinality(DOMAIN images) + 1

\* the handler is entered: its locals are fresh
Called(req, at) ==
    /\ call' = req
    /\ pc' = at
    /\ build_logs' = << >>
    /\ produced' = << >>
    /\ picked' = ""
    /\ ops' = {}
    /\ before' = [images |-> images, tagged |-> tagged]
    /\ answer' = NoAnswer

\* the handler returns a response
Answer(resp) ==
    /\ answer' = resp
    /\ pc' = "answered"

\* the response goes out to the client, and the locals of the call with it
Answered ==
    /\ pc = "answered"
    /\ pc' = "idle"
    /\ call' = NoCall
    /\ build_logs' = << >>
    /\ produced' = << >>
    /\ picked' = ""
    /\ ops' = {}
    /\ before' = [images |-> EmptyDict, tagged |-> EmptyDict]
    /\ answer' = NoAnswer
    /\ UNCHANGED <<clock, images, tagged, running, apart>>

\* models.py:57-64
CreateImageResponse(success, image_id, image_name, logs, error_message) ==
    [kind |-> "CreateImageResponse", success |-> success, image_id |-> image_id,
     image_name |-> image_name, build_logs |-> logs, error_message |-> error_message]

\* models.py:144-150
InstallPackageResponse(success, new_image_id, logs, error_message) ==
    [kind |-> "InstallPackageResponse", success |-> success,
     new_image_id |-> new_image_id, build_logs |-> logs,
     error_message |-> error_message]

\* an engine call of the running handler is noted, and that it raised
Noted(op, raised) ==
    ops' = ops \cup (IF raised THEN {op, "raised"} ELSE {op})

\* min_length=1 that admits the empty list
ValidAnyLength(languages) == Len(languages) >= 0

\* models.py:50: languages: list[Language] = Field(min_length=1)
ValidCreateImageRequest(languages) == Len(languages) >= 1

\* server.py:112-118, mcp_server.py:99-101: the request is constructed from
\* the body; a body the model rejects is answered 422 and create_image is not
\* called
CreateImageEndpoint(languages, name) ==
    /\ pc = "idle"
    /\ Cardinality(DOMAIN images) < MaxImages
    /\ IF ValidCreateImageRequest(languages)
          THEN Called([op |-> "create_image", languages |-> languages,
                       image_name |-> name], "create_image")
          ELSE /\ Answer([kind |-> "422", input |-> languages])
               /\ UNCHANGED <<call, build_logs, produced, picked, ops, before>>
    /\ UNCHANGED <<clock, images, tagged, running, apart>>

\* docker_manager.py:119-121: the outer handler of create_image
CreateImageError(e) ==
    Answer(CreateImageResponse(FALSE, NoImage, NoTag, << >>, e))

\* docker_manager.py:66-92: the Dockerfile is chosen and written to a
\* temporary directory, which raises when the file system does
CreateImagePrepare ==
    /\ pc = "create_image"
    /\ \/ pc' = "create_image.build" /\ UNCHANGED answer
       \/ CreateImageError("OSError")
    /\ UNCHANGED <<clock, images, tagged, running, call, build_logs, produced, picked,
                   ops, before, apart>>

\* docker_manager.py:108-117: the handler of the build in create_image; logs
\* is its local build_logs
BuildFailed(logs) ==
    Answer(CreateImageResponse(FALSE, NoImage, NoTag, logs, "Build failed"))

\* docker_manager.py:97-106: the success response of create_image
Created(image, name, logs) ==
    Answer(CreateImageResponse(TRUE, image, name, logs, None))

\* the engine: an image is built and tagged; a tag another image carries
\* moves to the new one
Built(image, from, package, tag) ==
    /\ images' = Put(images, image, [from |-> from, package |-> package])
    /\ tagged' = Put(tagged, tag, image)

\* docker_manager.py:88-117: images.build(path, tag, rm, forcerm, nocache) under
\* the name of the request or the generated one.  It returns the image and its
\* log lines, or raises after it has produced some lines; the assignment to
\* build_logs of line 94 takes place only when it returns.
CreateImageBuild ==
    /\ pc = "create_image.build"
    /\ \E lines \in LogLines :
          /\ produced' = lines
          /\ \/ /\ Built(NextImage, NoImage, << >>, ImageTag(call.image_name))
                /\ build_logs' = lines
                /\ Noted("images.build", FALSE)
                /\ Created(NextImage, ImageTag(call.image_name), lines)
             \/ /\ Noted("images.build", TRUE)
                /\ BuildFailed(build_logs)
                /\ UNCHANGED <<images, tagged, build_logs>>
    /\ UNCHANGED <<clock, running, call, picked, before, apart>>

\* the two paths of install_package taken for one another
PathSwapped(build_new_image) ==
    IF build_new_image THEN "containers.list" ELSE "images.get"

\* docker_manager.py:349-352: the path build_new_image selects, by its first
\* engine call
PathOf(build_new_image) ==
    IF build_new_image THEN "images.get" ELSE "containers.list"

\* server.py:156-162, docker_manager.py:346-352: install_package is entered
InstallPackageEndpoint(image, package, build_new_image) ==
    /\ pc = "idle"
    /\ build_new_image => Cardinality(DOMAIN images) < MaxImages
    /\ Called([op |-> "install_package", image_id |-> image, language |-> "python",
               package_name |-> package, build_new_image |-> build_new_image],
              PathOf(build_new_image))
    /\ UNCHANGED <<clock, images, tagged, running, apart>>

\* a handler of install_package that lets the exception pass
InstallFailedEscapes(error_message) ==
    Answer([kind |-> "raised", success |-> FALSE, new_image_id |-> NoImage,
            build_logs |-> << >>, error_message |-> error_message])

\* docker_manager.py:364-367, 408-410, 416-419, 463-472: a failure response of
\* install_package
InstallFailed(error_message) ==
    Answer(InstallPackageResponse(FALSE, NoImage, << >>, error_message))

\* images.get that finds every handle
ImagesGetFindsAll(image) == "found"

\* the engine: images.get(image) of a handle; it raises ImageNotFound for a
\* handle it has no image of
ImagesGetOf(image) == IF image \in DOMAIN images THEN "found" ELSE "ImageNotFound"

\* docker_manager.py:360-367: images.get(request.image_id); ImageNotFound
\* is answered at once, any other exception by the handler of lines 408-410
ImagesGet ==
    /\ pc = "images.get"
    /\ \/ /\ Noted("images.get", FALSE)
          /\ IF ImagesGetOf(call.image_id) = "found"
                THEN pc' = "images.build" /\ UNCHANGED answer
                ELSE InstallFailed("Base image not found")
       \/ /\ Noted("images.get", TRUE)
          /\ InstallFailed("Build failed")
    /\ UNCHANGED <<clock, images, tagged, running, call, build_logs, produced, picked,
                   before, apart>>

\* the engine: the images a build from this image with this package may come
\* out as: a new one, or one it built from them before and still has cached
BuildsOf(from, package) ==
    {NextImage} \cup
    {i \in DOMAIN images : images[i] = [from |-> from, package |-> package]}

\* docker_manager.py:369-406: images.build(path, tag, rm, forcerm) of the
\* Dockerfile "FROM image, RUN install package" under the package tag
InstallBuild ==
    /\ pc = "images.build"
    /\ \E lines \in LogLines :
          /\ produced' = lines
          /\ \/ \E image \in BuildsOf(call.image_id, call.package_name) :
                   /\ Built(image, call.image_id, call.package_name,
                            PackageTag(call.package_name))
                   /\ Noted("images.build", FALSE)
                   /\ Answer(InstallPackageResponse(TRUE, image, lines, None))
             \/ /\ Noted("images.build", TRUE)
                /\ InstallFailed("Build failed")
                /\ UNCHANGED <<images, tagged>>
    /\ UNCHANGED <<clock, running, call, build_logs, picked, before, apart>>

\* containers.list that leaves the ancestor filter out
RunningOfAny(image) == {c \in DOMAIN running : running[c].state = "running"}

\* the engine: containers.list(filters={"ancestor": image}) gives the running
\* containers of the image and of the images built from it
RunningOf(image) ==
    {c \in DOMAIN running :
        running[c].state = "running" /\ IsAncestor(image, running[c].image)}

\* docker_manager.py:414-421: the running containers are listed and the
\* first of them is taken
ContainersList ==
    /\ pc = "containers.list"
    /\ \/ /\ Noted("containers.list", FALSE)
          /\ IF RunningOf(call.image_id) = {}
                THEN /\ InstallFailed("No running containers found")
                     /\ UNCHANGED picked
                ELSE /\ \E c \in RunningOf(call.image_id) : picked' = c
                     /\ pc' = "exec_run"
                     /\ UNCHANGED answer
       \/ /\ Noted("containers.list", TRUE)
          /\ InstallFailed("Package installation failed")
          /\ UNCHANGED picked
    /\ UNCHANGED <<clock, images, tagged, running, call, build_logs, produced, before,
                   apart>>

\* docker_manager.py:423-472: the install command is run in the container.
\* The engine runs it only in a container that is running and raises for any
\* other; output.decode() raises on bytes that are not UTF-8.
InstallExecRun ==
    /\ pc = "exec_run"
    /\ \/ /\ running[picked].state = "running"
          /\ Noted("exec_run", FALSE)
          /\ \E code \in ExitCodes, out \in Outputs :
                /\ running' = IF code = 0
                                 THEN [running EXCEPT ![picked].installed =
                                          @ \cup {call.package_name}]
                                 ELSE running
                /\ IF out # "" /\ ~Decodes(out)
                      THEN InstallFailed("Package installation failed")
                      ELSE IF code = 0
                              THEN Answer(InstallPackageResponse(TRUE, NoImage,
                                              <<Stdout(out)>>, None))
                              ELSE InstallFailed("Package installation failed")
       \/ /\ Noted("exec_run", TRUE)
          /\ InstallFailed("Package installation failed")
          /\ UNCHANGED running
    /\ UNCHANGED <<clock, images, tagged, call, build_logs, produced, picked, before,
                   apart>>

\* another client of the engine runs a container of an image
EngineRuns(c, image) ==
    /\ image \in DOMAIN images
    /\ c \notin DOMAIN running
    /\ running' = Put(running, c,
                      [image |-> image, state |-> "running", installed |-> {}])
    /\ UNCHANGED <<clock, pc, images, tagged, call, build_logs, produced, picked, ops,
                   before, answer, apart>>

\* a container another client runs comes to its end
EngineStops(c) ==
    /\ c \in DOMAIN running
    /\ running[c].state = "running"
    /\ running' = [running EXCEPT ![c].state = "exited"]
    /\ UNCHANGED <<clock, pc, images, tagged, call, build_logs, produced, picked, ops,
                   before, answer, apart>>

NextImages ==
    \/ Tick
    \/ \E languages \in LanguageLists, name \in ImageNames :
          CreateImageEndpoint(languages, name)
    \/ CreateImagePrepare
    \/ CreateImageBuild
    \/ \E image \in 1..MaxImages, package \in Packages, build_new_image \in BOOLEAN :
          InstallPackageEndpoint(image, package, build_new_image)
    \/ ImagesGet
    \/ InstallBuild
    \/ ContainersList
    \/ InstallExecRun
    \/ Answered
    \/ \E c \in OtherContainers, image \in 1..MaxImages : EngineRuns(c, image)
    \/ \E c \in OtherContainers : EngineStops(c)

ImageSpec == Init /\ [][NextImages]_vars

(* ------------ models.py and the Dockerfile of create_image ------------- *)

\* models.py:41: memory_mb: int = Field(default=512, ge=64, le=8192)
MemoryMin == 64
MemoryMax == 8192
MemoryDefault == 512

\* models.py:43: timeout_seconds: int = Field(default=300, ge=10, le=3600)
TimeoutMin == 10
TimeoutMax == 3600
TimeoutDefault == 300

\* the values of memory_mb and timeout_seconds the requests come with: the
\* default, the bounds, and the integers next to the bounds
MemoryValues == {MemoryMin - 1, MemoryMin, MemoryDefault, MemoryMax, MemoryMax + 1}

TimeoutValues ==
    {TimeoutMin - 1, TimeoutMin, TimeoutDefault, TimeoutMax, TimeoutMax + 1}

\* the bounds of memory_mb taken as exclusive
ValidInside(memory_mb, timeout_seconds) ==
    /\ memory_mb > MemoryMin /\ memory_mb < MemoryMax
    /\ timeout_seconds >= TimeoutMin /\ timeout_seconds <= TimeoutMax

\* models.py:38-44: the constraints of ResourceLimits on the two fields
ValidResourceLimits(memory_mb, timeout_seconds) ==
    /\ memory_mb >= MemoryMin /\ memory_mb <= MemoryMax
    /\ timeout_seconds >= TimeoutMin /\ timeout_seconds <= TimeoutMax

\* models.py:38-44, 67-76: ResourceLimits(memory_mb=.., timeout_seconds=..) is
\* constructed, for the resource_limits of a request; pydantic raises
\* ValidationError on a value out of range and no object comes to be
ConstructResourceLimits(memory_mb, timeout_seconds) ==
    /\ pc = "idle"
    /\ given' = [kind |-> "ResourceLimits", memory_mb |-> memory_mb,
                 timeout_seconds |-> timeout_seconds]
    /\ made' = IF ValidResourceLimits(memory_mb, timeout_seconds)
                  THEN [kind |-> "ResourceLimits", memory_mb |-> memory_mb,
                        timeout_seconds |-> timeout_seconds]
                  ELSE [kind |-> "ValidationError"]
    /\ UNCHANGED <<clock, pc, engine, active_containers, executions, who, frame,
                   returned, tracker, logstream, imaging, filestore>>

\* the Dockerfile in the working directory of the server: None when there
\* is no such file
ProjectDockerfiles == {None, "project Dockerfile"}

\* custom_dockerfile of the create requests (models.py:53)
CustomDockerfiles == {None, "", "custom Dockerfile"}

\* languages of the create requests once validated: the non-empty selections
LanguageSets == SUBSET Languages \ {{}}

\* the blocks _generate_dockerfile appends when it knows the language
ToolchainBlocks == [node |-> "Install Node.js", csharp |-> "Install .NET SDK"]

\* docker_manager.py:123-194: the generated Dockerfile, as the sequence of
\* its blocks
GenerateDockerfile(languages) ==
    <<"FROM base_os", "Cache busting", "Install system dependencies">>
    \o (IF "node" \in languages THEN <<ToolchainBlocks.node>> ELSE << >>)
    \o (IF "csharp" \in languages THEN <<ToolchainBlocks.csharp>> ELSE << >>)
    \o <<"Create workspace and user", "Default command">>

\* the override taking precedence over the Dockerfile of the project
DockerfileOverrideFirst(project, custom, languages) ==
    IF custom \notin {None, ""}
       THEN [source |-> "custom", text |-> custom, blocks |-> << >>]
       ELSE IF project # None
               THEN [source |-> "project", text |-> project, blocks |-> << >>]
               ELSE [source |-> "generated", text |-> "",
                     blocks |-> GenerateDockerfile(languages)]

\* docker_manager.py:67-79: dockerfile_content; the Dockerfile of the project
\* if the file exists, else a custom_dockerfile that is true (not None, not
\* empty), else the generated one
DockerfileContent(project, custom, languages) ==
    IF project # None
       THEN [source |-> "project", text |-> project, blocks |-> << >>]
       ELSE IF custom \notin {None, ""}
               THEN [source |-> "custom", text |-> custom, blocks |-> << >>]
               ELSE [source |-> "generated", text |-> "",
                     blocks |-> GenerateDockerfile(languages)]

\* docker_manager.py:67-79: create_image chooses its Dockerfile
ChooseDockerfile(project, custom, languages) ==
    /\ pc = "idle"
    /\ given' = [kind |-> "create_image", project |-> project, custom |-> custom,
                 languages |-> languages]
    /\ made' = [kind |-> "Dockerfile",
                dockerfile |-> DockerfileContent(project, custom, languages)]
    /\ UNCHANGED <<clock, pc, engine, active_containers, executions, who, frame,
                   returned, tracker, logstream, imaging, filestore>>

NextModels ==
    \/ \E memory_mb \in MemoryValues, timeout_seconds \in TimeoutValues :
          ConstructResourceLimits(memory_mb, timeout_seconds)
    \/ \E project \in ProjectDockerfiles, custom \in CustomDockerfiles,
          languages \in LanguageSets :
          ChooseDockerfile(project, custom, languages)

ModelsSpec == Init /\ [][NextModels]_vars

(* ------------- FileManager and DockerManager.execute_uploaded_file ----- *)

\* str(uuid.uuid4()): the ids an upload can be given
FileIds == {"f1", "f2"}

\* the filenames of upload requests: an ordinary one, the one that names the
\* metadata file, and one in a directory that does not exist
Filenames == {"main.py", "metadata.json", "dir/main.py"}

\* the contents of upload requests, as their characters: one line without a
\* line end, and one line ended by carriage return and line feed
Contents == {<<"x">>, <<"x", "CR", "LF">>}

\* the languages of upload requests (models.py:11-17 has four; two directories
\* are enough to tell them apart)
FileLanguages == {"python", "bash"}

\* language_dir / f"{file_id}_{name}" as its three varying parts
PathOfFile(language, file_id, name) == [dir |-> language, id |-> file_id, name |-> name]

\* file_manager.py:52: language_dir / f"{file_id}_metadata.json"
MetadataPath(language, file_id) == PathOfFile(language, file_id, "metadata.json")

\* open(file_path, "w") creates the file when its directory exists
Writable(path) == path.name # "dir/main.py"

\* file_manager.py:40-49: the metadata dict (size, uploaded_at and binary are
\* written and never read back by get_file's callers here)
Metadata(file_id, filename, language) ==
    [file_id |-> file_id, filename |-> filename, language |-> language,
     file_path |-> PathOfFile(language, file_id, filename), encoding |-> "utf-8"]

\* json.dump(metadata, f, indent=2): the text of the object, key by key
JsonDump(md) ==
    <<"{", md.file_id, md.filename, md.language, md.file_path.dir, md.file_path.id,
      md.file_path.name, md.encoding, "}">>

\* json.load accepts the text of an object and raises on any other text
IsJson(text) == Len(text) = 9 /\ text[1] = "{" /\ text[9] = "}"

\* json.load(f) of a text that IsJson
JsonLoad(text) ==
    [file_id |-> text[2], filename |-> text[3], language |-> text[4],
     file_path |-> [dir |-> text[5], id |-> text[6], name |-> text[7]],
     encoding |-> text[8]]

\* f.read() of a file opened in text mode with newline=None: "\r\n" and a
\* lone "\r" are both read as "\n"
RECURSIVE ReadText(_)
ReadText(text) ==
    IF text = << >> THEN << >>
    ELSE IF Head(text) = "CR"
            THEN IF Len(text) > 1 /\ text[2] = "LF"
                    THEN <<"LF">> \o ReadText(SubSeq(text, 3, Len(text)))
                    ELSE <<"LF">> \o ReadText(Tail(text))
            ELSE <<Head(text)>> \o ReadText(Tail(text))

\* file_manager.py:36-37 and 55-56: the directory after the content and then
\* the metadata have been written
Written(file_id, filename, content, language) ==
    Put(Put(files, PathOfFile(language, file_id, filename), content),
        MetadataPath(language, file_id), JsonDump(Metadata(file_id, filename, language)))

\* file_manager.py:25-61: FileManager.upload_file
UploadResponse(file_id, filename, language) ==
    IF Writable(PathOfFile(language, file_id, filename))
       THEN [kind |-> "upload", success |-> TRUE, file_id |-> file_id,
             file_path |-> PathOfFile(language, file_id, filename)]
       ELSE [kind |-> "upload", success |-> FALSE, file_id |-> None,
             file_path |-> PathOfFile(None, None, None)]

\* the directories in which the metadata file of file_id exists
DirsOf(file_id) == {l \in Languages : MetadataPath(l, file_id) \in DOMAIN files}

NoFile == [kind |-> "get", found |-> FALSE]

\* file_manager.py:94-121: FileManager.get_file.  The first directory whose
\* metadata file exists decides; a file id is in one directory at most.
GetFile(file_id) ==
    IF DirsOf(file_id) = {} THEN NoFile
    ELSE LET l == CHOOSE d \in DirsOf(file_id) : TRUE
             text == files[MetadataPath(l, file_id)]
         IN IF ~IsJson(ReadText(text)) THEN NoFile
            ELSE LET metadata == JsonLoad(ReadText(text))
                 IN IF metadata.file_path \notin DOMAIN files THEN NoFile
                    ELSE [kind |-> "get", found |-> TRUE,
                          file_id |-> metadata.file_id,
                          filename |-> metadata.filename,
                          language |-> metadata.language,
                          content |-> ReadText(files[metadata.file_path])]

\* file_manager.py:123-150: FileManager.delete_file as the directory it leaves
\* and the value it returns.  file_path.unlink() runs when the file exists,
\* then metadata_path.unlink() runs and raises when that file is gone.
DeleteFileOutcome(file_id) ==
    IF DirsOf(file_id) = {} THEN [files |-> files, ok |-> FALSE]
    ELSE LET l == CHOOSE d \in DirsOf(file_id) : TRUE
             text == files[MetadataPath(l, file_id)]
         IN IF ~IsJson(ReadText(text)) THEN [files |-> files, ok |-> FALSE]
            ELSE LET file_path == JsonLoad(ReadText(text)).file_path
                     unlinked == IF file_path \in DOMAIN files
                                    THEN Del(files, file_path) ELSE files
                 IN IF MetadataPath(l, file_id) \in DOMAIN unlinked
                       THEN [files |-> Del(unlinked, MetadataPath(l, file_id)),
                             ok |-> TRUE]
                       ELSE [files |-> unlinked, ok |-> FALSE]

\* what the file handlers leave alone
outside ==
    <<clock, engine, active_containers, executions, who, frame, returned, tracker,
      logstream, imaging, construction>>

\* server.py:165-171: POST /files/upload
UploadFile(file_id, filename, content, language) ==
    /\ pc = "idle"
    /\ file_id \notin DOMAIN uploaded
    /\ file_reply' = UploadResponse(file_id, filename, language)
    /\ IF Writable(PathOfFile(language, file_id, filename))
          THEN /\ files' = Written(file_id, filename, content, language)
               /\ uploaded' = Put(uploaded, file_id,
                                  [filename |-> filename, content |-> content,
                                   language |-> language, deleted |-> FALSE])
          ELSE UNCHANGED <<files, uploaded>>
    /\ UNCHANGED <<outside, pc, submitted>>

\* server.py:183-193: GET /files/{file_id}.  The handler reads the directory
\* and changes nothing; it answers 404 when get_file finds no file.
GetFileInfo(file_id) ==
    /\ pc = "idle"
    /\ GetFile(file_id).kind = "get"
    /\ UNCHANGED vars

\* server.py:196-206: DELETE /files/{file_id}
DeleteFile(file_id) ==
    /\ pc = "idle"
    /\ files' = DeleteFileOutcome(file_id).files
    /\ file_reply' = [kind |-> "delete", file_id |-> file_id,
                      success |-> DeleteFileOutcome(file_id).ok]
    /\ uploaded' = IF DeleteFileOutcome(file_id).ok /\ file_id \in DOMAIN uploaded
                      THEN [uploaded EXCEPT ![file_id].deleted = TRUE]
                      ELSE uploaded
    /\ UNCHANGED <<outside, pc, submitted>>

\* FileNotFoundResponse with the status of a finished run
FileNotFoundCompleted ==
    [execution_id |-> ExecId(clock, "error"), status |-> "completed", stdout |-> None,
     stderr |-> None, exit_code |-> NoExit, error_message |-> "File not found",
     execution_time_seconds |-> NoTime]

\* docker_manager.py:321-326: the response for a file id get_file does not find
FileNotFoundResponse ==
    [execution_id |-> ExecId(clock, "error"), status |-> "failed", stdout |-> None,
     stderr |-> None, exit_code |-> NoExit, error_message |-> "File not found",
     execution_time_seconds |-> NoTime]

\* docker_manager.py:329-337: execute_request, as its language and code
ExecuteRequest(file_info) == [language |-> file_info.language, code |-> file_info.content]

\* server.py:209-216 and docker_manager.py:318-339: POST /files/{file_id}/execute.
\* Without the file the handler returns at once; with it execute_code is
\* entered with the request built from the file.
ExecuteUploadedFile(file_id) ==
    /\ pc = "idle"
    /\ created < MaxCalls
    /\ IF ~GetFile(file_id).found
          THEN /\ file_reply' = [kind |-> "execute", file_id |-> file_id,
                                 response |-> FileNotFoundResponse]
               /\ UNCHANGED <<pc, caller, frame, submitted>>
          ELSE /\ submitted' = ExecuteRequest(GetFile(file_id))
               /\ file_reply' = [kind |-> "execute", file_id |-> file_id,
                                 response |-> NoResponse]
               /\ Enter("file", ExecuteRequest(GetFile(file_id)).language)
    /\ UNCHANGED <<clock, engine, active_containers, executions, task, execution_data,
                   returned, tracker, logstream, imaging, construction, files, uploaded>>

\* docker_manager.py:339 and server.py:216: the response of execute_code is
\* the response of the handler, whose locals are gone
ReturnUploadedFile ==
    /\ pc = "returned"
    /\ caller = "file"
    /\ file_reply' = [file_reply EXCEPT !.response = response]
    /\ submitted' = NoSubmitted
    /\ Leave
    /\ UNCHANGED <<clock, engine, active_containers, executions, task, execution_data,
                   returned, tracker, logstream, imaging, construction, files, uploaded>>

NextFiles ==
    \/ \E file_id \in FileIds, filename \in Filenames, content \in Contents,
          language \in FileLanguages : UploadFile(file_id, filename, content, language)
    \/ \E file_id \in FileIds : GetFileInfo(file_id)
    \/ \E file_id \in FileIds : DeleteFile(file_id)
    \/ \E file_id \in FileIds : ExecuteUploadedFile(file_id)
    \/ ExecuteCodeStep
    \/ ReturnUploadedFile

FileSpec == Init /\ [][NextFiles]_vars

(* ------- DockerManager._prepare_code_execution: the command text -------- *)

\* f"{stem}_{int(time.time())}{ext}" as its three varying parts
TempPath(stem, ts, ext) == [stem |-> stem, ts |-> ts, ext |-> ext]

\* the command names no temp path (bash runs request.code as it is)
NoPath == TempPath(None, NoTime, None)

\* docker_manager.py:259-296: the paths the command names.  python and node
\* read the clock once into "timestamp" (lines 262, 272) and name one file;
\* csharp reads the clock in each of its three f-string fields (lines
\* 282, 283, 290): the directory made, the one entered, the one removed.
CommandOf(language, t1, t2, t3) ==
    IF language = "python"
       THEN [language |-> language, makes |-> TempPath("/tmp/exec", t1, ".py"),
             uses |-> TempPath("/tmp/exec", t1, ".py"),
             removes |-> TempPath("/tmp/exec", t1, ".py")]
    ELSE IF language = "node"
       THEN [language |-> language, makes |-> TempPath("/tmp/exec", t1, ".js"),
             uses |-> TempPath("/tmp/exec", t1, ".js"),
             removes |-> TempPath("/tmp/exec", t1, ".js")]
    ELSE IF language = "csharp"
       THEN [language |-> language, makes |-> TempPath("/tmp/csharp_exec", t1, ""),
             uses |-> TempPath("/tmp/csharp_exec", t2, ""),
             removes |-> TempPath("/tmp/csharp_exec", t3, "")]
    ELSE [language |-> language, makes |-> NoPath, uses |-> NoPath, removes |-> NoPath]

\* the commands synthesized so far
Commands == IF made.kind = "commands" THEN made.list ELSE << >>

\* docker_manager.py:257-296: one call of _prepare_code_execution for a
\* supported language.  The clock is read up to three times; it may advance
\* between the readings, and stands at the last reading when the call returns.
SynthesizeCommand(language) ==
    /\ pc = "idle"
    /\ Len(Commands) < MaxCalls
    /\ \E t1, t2, t3 \in clock..MaxClock :
          /\ t1 <= t2 /\ t2 <= t3
          /\ language # "csharp" => t1 = clock /\ t3 = clock
          /\ clock' = t3
          /\ given' = [kind |-> "prepare", language |-> language]
          /\ made' = [kind |-> "commands",
                      list |-> Append(Commands, CommandOf(language, t1, t2, t3))]
    /\ UNCHANGED <<pc, engine, active_containers, executions, who, frame, returned,
                   tracker, logstream, imaging, filestore>>

\* resource_limits.cpu_cores in tenths of a core: the least, the default and
\* the greatest value models.py:42 accepts
CpuTenths == {1, 10, 80}

\* resource_limits.memory_mb: the least, the default and the greatest value
MemoryAccepted == {MemoryMin, MemoryDefault, MemoryMax}

\* docker_manager.py:203-219: the keyword arguments of containers.create that
\* come from request.resource_limits: mem_limit is f"{memory_mb}m", cpu_quota
\* is int(cpu_cores * 100000), and network_disabled is the literal False
CreateArguments(limits) ==
    [mem_limit |-> <<limits.memory_mb, "m">>,
     cpu_quota |-> limits.cpu_tenths * 10000,
     network_disabled |-> FALSE]

\* execute_code reaches containers.create with a request of these limits
ContainersCreateWith(limits) ==
    /\ pc = "idle"
    /\ given' = [kind |-> "create", resource_limits |-> limits]
    /\ made' = [kind |-> "kwargs", kwargs |-> CreateArguments(limits)]
    /\ UNCHANGED <<clock, pc, engine, active_containers, executions, who, frame,
                   returned, tracker, logstream, imaging, filestore>>

NextSynthesis ==
    \/ Tick
    \/ \E language \in Languages : SynthesizeCommand(language)
    \/ \E limits \in [memory_mb : MemoryAccepted, cpu_tenths : CpuTenths,
                       network_enabled : BOOLEAN] : ContainersCreateWith(limits)

SynthesisSpec == Init /\ [][NextSynthesis]_vars

(* ------------------- MCPDockerExecutor.shutdown ------------------------ *)

\* server.py:84-88: what the body of the loop comes to for one entry:
\* stop() and remove() both return, stop() raises (remove() is then not
\* called), or remove() raises; the except branch logs a warning each time
CleanupOutcomes == {"stopped and removed", "stop raised", "remove raised"}

\* the engine after the loop: a container that was stopped and removed is
\* gone, one whose remove() raised is left stopped
CleanedUp(outcome) ==
    LET keyOf(h) == CHOOSE k \in DOMAIN active_containers : active_containers[k] = h
        held == {active_containers[k] : k \in DOMAIN active_containers}
        gone == {h \in held : outcome[keyOf(h)] = "stopped and removed"}
    IN [h \in DOMAIN containers \ gone |->
           IF h \in held /\ outcome[keyOf(h)] = "remove raised"
              THEN [containers[h] EXCEPT !.state = "exited"]
              ELSE containers[h]]

\* server.py:52-55 and 80-88: the lifespan of the application ends and
\* shutdown() runs, once no handler holds the event loop.  It goes through
\* active_containers and leaves the dict as it is; a container the engine no
\* longer has makes stop() raise.  No request is served afterwards.
Shutdown ==
    /\ pc = "idle"
    /\ pc' = "down"
    /\ \E outcome \in [DOMAIN active_containers -> CleanupOutcomes] :
          /\ \A k \in DOMAIN active_containers :
                active_containers[k] \notin DOMAIN containers =>
                    outcome[k] = "stop raised"
          /\ containers' = CleanedUp(outcome)
          /\ given' = [kind |-> "shutdown", active_containers |-> active_containers]
          /\ made' = [kind |-> "shutdown", outcome |-> outcome, raised |-> FALSE]
    /\ UNCHANGED <<clock, created, active_containers, executions, who, frame, returned,
                   tracker, logstream, imaging, filestore>>

NextShutdown ==
    \/ NextExec
    \/ Shutdown

ShutdownSpec == Init /\ [][NextShutdown]_vars

(* ------------------------ FileManager.list_files ----------------------- *)

\* the filenames of upload requests, with one that ends in "_metadata.json"
ListedFilenames == Filenames \cup {"x_metadata.json"}

\* the contents of upload requests, with one that is the text of a JSON
\* object with the keys of a metadata file
ListedContents ==
    {<<"x">>, JsonDump(Metadata("forged", "forged.py", "python"))}

\* file_manager.py:74: language_dir.glob("*_metadata.json") against the file
\* name f"{file_id}_{name}"
MatchesGlob(path) == path.name \in {"metadata.json", "x_metadata.json"}

\* file_manager.py:69-88: the files of the language directories that match
\* the pattern and that json.load accepts; the others are skipped
ListedPaths ==
    {p \in DOMAIN files : p.dir \in Languages /\ MatchesGlob(p) /\ IsJson(ReadText(files[p]))}

\* file_manager.py:63-93: FileManager.list_files: one entry for each such
\* file, the loaded object without "file_path", and their number
ListFiles ==
    [files |-> [p \in ListedPaths |->
                   [file_id |-> JsonLoad(ReadText(files[p])).file_id,
                    filename |-> JsonLoad(ReadText(files[p])).filename,
                    language |-> JsonLoad(ReadText(files[p])).language]],
     total_count |-> Cardinality(ListedPaths)]

\* server.py:174-180: GET /files; it reads the directory and changes nothing
ListFilesEndpoint ==
    /\ pc = "idle"
    /\ ListFiles.total_count >= 0
    /\ UNCHANGED vars

NextList ==
    \/ \E file_id \in FileIds, filename \in ListedFilenames, content \in ListedContents,
          language \in FileLanguages : UploadFile(file_id, filename, content, language)
    \/ \E file_id \in FileIds : DeleteFile(file_id)
    \/ ListFilesEndpoint

ListSpec == Init /\ [][NextList]_vars

(* ----------------------- server.py: the route table -------------------- *)

\* a path parameter such as {file_id} in a route's path
Param == "{}"

\* server.py:91-255: the routes in the order their decorators register them
Routes ==
    <<[method |-> "GET", path |-> <<"health">>, handler |-> "health_check"],
      [method |-> "POST", path |-> <<"images", "create">>, handler |-> "create_image"],
      [method |-> "POST", path |-> <<"execute">>, handler |-> "execute_code"],
      [method |-> "GET", path |-> <<"executions", Param>>,
       handler |-> "get_execution_result"],
      [method |-> "POST", path |-> <<"packages", "install">>,
       handler |-> "install_package"],
      [method |-> "POST", path |-> <<"files", "upload">>, handler |-> "upload_file"],
      [method |-> "GET", path |-> <<"files">>, handler |-> "list_files"],
      [method |-> "GET", path |-> <<"files", Param>>, handler |-> "get_file_info"],
      [method |-> "DELETE", path |-> <<"files", Param>>, handler |-> "delete_file"],
      [method |-> "POST", path |-> <<"files", Param, "execute">>,
       handler |-> "execute_file"],
      [method |-> "GET", path |-> <<"files", "stats">>, handler |-> "get_file_stats"],
      [method |-> "POST", path |-> <<"execute", "stream">>,
       handler |-> "execute_code_streaming"],
      [method |-> "GET", path |-> <<"executions", Param, "progress">>,
       handler |-> "get_execution_progress"],
      [method |-> "GET", path |-> <<"executions", Param, "stream">>,
       handler |-> "stream_execution_logs"]>>

\* the segments of request paths, and the methods of requests
Segments == {"files", "stats", "f1", "execute", "executions", "upload"}

RequestPaths == UNION {[1..n -> Segments] : n \in 1..3}

Methods == {"GET", "POST", "DELETE"}

\* the router matches a path against a route's path segment by segment; a
\* parameter matches any one segment
Matches(route, method, path) ==
    /\ route.method = method
    /\ Len(route.path) = Len(path)
    /\ \A i \in 1..Len(path) : route.path[i] \in {Param, path[i]}

\* the router takes the first route, in the order of registration, that
\* matches the request; with none the request is answered with an error
Dispatch(method, path) ==
    LET hits == {i \in 1..Len(Routes) : Matches(Routes[i], method, path)}
    IN IF hits = {} THEN "no route"
       ELSE Routes[CHOOSE i \in hits : \A j \in hits : i <= j].handler

\* a request comes in and is dispatched
Request(method, path) ==
    /\ pc = "idle"
    /\ given' = [kind |-> "request", method |-> method, path |-> path]
    /\ made' = [kind |-> "dispatch", handler |-> Dispatch(method, path)]
    /\ UNCHANGED <<clock, pc, engine, active_containers, executions, who, frame,
                   returned, tracker, logstream, imaging, filestore>>

NextRoute == \E method \in Methods, path \in RequestPaths : Request(method, path)

RouteSpec == Init /\ [][NextRoute]_vars

(* --------------------------- cli.py: exec ------------------------------ *)

\* cli.py:219-235: the CLI polls GET /executions/{execution_id} up to sixty
\* times; an answer with no "status" key (the 404 body) raises KeyError, which
\* the handler of lines 316-318 reports before it exits with 1
CliPoll(x) ==
    LET r == ExecutionResult(x)
    IN IF r.kind = "404" THEN "Error"
       ELSE IF r.body.status = "completed" THEN "Execution completed"
       ELSE IF r.body.status = "failed" THEN "Execution failed"
       ELSE "Execution timed out"

\* cli.py:212-239: what the exec command ends in for the body POST /execute
\* answered with: it polls only when the status is "running", and takes every
\* other status for a failure to start
CliExecOutcome(body) ==
    IF body.status = "running"
       THEN CliPoll(body.execution_id)
       ELSE "Execution failed to start"

\* the CLI process has the answer of its POST /execute (cli.py:44-51, 213) and
\* runs the exec command to its end
CliExec ==
    /\ returned # << >>
    /\ given' = [kind |-> "exec", result |-> returned[Len(returned)]]
    /\ made' = [kind |-> "cli", outcome |-> CliExecOutcome(returned[Len(returned)])]
    /\ UNCHANGED <<clock, pc, engine, active_containers, executions, who, frame,
                   returned, tracker, logstream, imaging, filestore>>

NextCli ==
    \/ NextExec
    \/ CliExec

CliSpec == Init /\ [][NextCli]_vars

(* ------------------------------ claims -------------------------------- *)

\* C1: when execute_code returns, active_containers holds no entry under the
\* execution id the call registered its container with, on every path.
C1_NoEntryAfterReturn ==
    (pc = "returned" /\ execution_id # NoExecId)
        => execution_id \notin DOMAIN active_containers

\* C2: when execute_code returns, the container it created has been stopped
\* and removed, whatever the outcome.
C2_ContainerRemovedOnReturn ==
    (pc = "returned" /\ container # 0) => container \notin DOMAIN containers

\* C3: no exception leaves execute_code: every fault raised by command
\* synthesis or by an engine call ends in a returned response with status
\* failed whose error_message is the fault's description.
C3_FaultsBecomeFailedResponses ==
    /\ fault # None => pc = "returned"
    /\ (pc = "returned" /\ fault # None)
          => /\ response.status = "failed"
             /\ response.error_message = fault

\* C3 witness: container.remove raised after the entry was inserted, and
\* execute_code has returned.
C3_Witness == pc = "returned" /\ fault = "remove failed"

C5_FailedHasErrorMessage ==
    (pc = "returned" /\ response.status = "failed") => response.error_message # None

\* C6: any two execute_code calls return distinct execution ids.
C6_DistinctExecutionIds ==
    \A i, j \in 1..Len(returned) :
        i # j => returned[i].execution_id # returned[j].execution_id

\* the id, status, stdout, exit code and error message of a 200 reply
SameRecord(rep, r) ==
    /\ rep.kind = "result"
    /\ rep.body.status = r.status
    /\ rep.body.stdout = r.stdout
    /\ rep.body.exit_code = r.exit_code
    /\ rep.body.error_message = r.error_message

\* C7: GetExecutionResult of an id the Execute endpoint returned gives the
\* status, stdout, exit code and error message of the response returned with
\* that id, and GetExecutionResult of an id never returned gives NotFound.
C7_ResultIsWhatExecuteReturned ==
    /\ \A i \in 1..Len(returned) :
          SameRecord(ExecutionResult(returned[i].execution_id), returned[i])
    /\ \A x \in QueryIds :
          (\A i \in 1..Len(returned) : returned[i].execution_id # x)
              => ExecutionResult(x) = NotFound(x)

\* C8: a record stored under an execution id is never overwritten or changed
\* by a later operation.
C8_StoredRecordNeverChanges ==
    [][\A x \in DOMAIN executions :
          x \in DOMAIN executions' /\ executions'[x] = executions[x]]_vars

\* the status get_execution_progress reports for a tracked id
TrackedStatus(id) == heap[streaming_executions[id]].status

Terminal(st) == st \in {"completed", "failed"}

\* C9: a tracked execution is running, completed or failed, and once it is
\* completed or failed its status never changes again.
C9_TerminalStatusIsFinal ==
    [][\A id \in DOMAIN streaming_executions :
          /\ TrackedStatus(id) \in {"running", "completed", "failed"}
          /\ Terminal(TrackedStatus(id))
                => /\ id \in DOMAIN streaming_executions'
                   /\ heap'[streaming_executions'[id]].status = TrackedStatus(id)]_vars

\* the tracked execution has a terminal status and its end time
Ended(id) ==
    /\ id \in DOMAIN streaming_executions
    /\ Terminal(TrackedStatus(id))
    /\ heap[streaming_executions[id]].end_time # NoTime

\* C10: every execution id started with start_streaming_execution eventually
\* has a terminal status with its end time recorded, given that the event
\* loop runs the tasks it holds and every engine call returns or raises.
C10_StreamingEventuallyEnds ==
    \A id \in StreamIds : (id \in DOMAIN streaming_executions) ~> Ended(id)

\* C10 witness: a started streaming execution has ended.
C10_Witness == \E id \in StreamIds : Ended(id)


\* C11: the log stream of every execution id, one that was never started
\* included, comes to an end: the generator of an opened stream eventually
\* stops.
C11_LogStreamTerminates == (log_pc # "none") ~> (log_pc \in {"ended", "raised"})


\* C12: a progress query for an execution id that was never started is
\* answered with the 404 of the endpoint, not with a body.
C12_NeverStartedIsNotFound ==
    \A id \in AskedIds :
        id \notin DOMAIN streaming_executions => ProgressReply(id).kind = "404"


\* the snapshot of a streaming execution that has not finished
InitialSnapshot(p) ==
    p.status = "running" /\ p.response = NoResponse /\ p.end_time = NoTime

\* the snapshot of a streaming execution that has finished
FinalSnapshot(p) ==
    /\ p.status \in {"completed", "failed"}
    /\ p.end_time # NoTime
    /\ p.response # NoResponse \/ p.error # None

\* C13: in every state, the monitor task being part-way through its
\* execute_code call included, the snapshot of every tracked id is the initial
\* one (running, no response, no end time) or the final one (terminal status,
\* end time, and response or error); none is torn.
C13_SnapshotInitialOrFinal ==
    \A id \in DOMAIN streaming_executions :
        InitialSnapshot(ExecutionProgress(id)) \/ FinalSnapshot(ExecutionProgress(id))

\* C13 witness: the loop is free to serve a reader while one tracked id has
\* its final snapshot and another its initial one.
C13_Witness ==
    /\ pc = "idle"
    /\ \E id \in DOMAIN streaming_executions : FinalSnapshot(ExecutionProgress(id))
    /\ \E id \in DOMAIN streaming_executions : InitialSnapshot(ExecutionProgress(id))


\* an install_package call with this build_new_image has returned
InstallReturned(build_new_image) ==
    /\ pc = "answered"
    /\ call.op = "install_package"
    /\ call.build_new_image = build_new_image

\* C14: when install_package with build_new_image=true returns, with success
\* or without, the engine reports of the source image what it reported when
\* the call was entered; on success no image but the returned one is new and
\* none of the images there were has changed or gone.
C14_SourceImageUntouched ==
    InstallReturned(TRUE) =>
        /\ ImageState(images, tagged, call.image_id)
              = ImageState(before.images, before.tagged, call.image_id)
        /\ answer.success =>
              /\ DOMAIN images \ DOMAIN before.images \subseteq {answer.new_image_id}
              /\ \A i \in DOMAIN before.images :
                    i \in DOMAIN images /\ images[i] = before.images[i]


\* the running call was given a source image the engine had no image of
SourceMissing == call.image_id \notin DOMAIN before.images

\* C15 as stated: install_package with build_new_image=true on a source image
\* that does not exist returns success=false with the image-not-found
\* message and has invoked no build.
C15_MissingSourceIsNotFound ==
    (InstallReturned(TRUE) /\ SourceMissing) =>
        /\ ~answer.success
        /\ answer.error_message = "Base image not found"
        /\ "images.build" \notin ops

\* C15: install_package with build_new_image=true on a source image that does
\* not exist returns success=false and has invoked no build; its message is
\* the image-not-found one whenever images.get answered the lookup (when
\* images.get raised another exception the message is the build-failed one).
C15_MissingSourceIsNotFoundUnlessFault ==
    (InstallReturned(TRUE) /\ SourceMissing) =>
        /\ ~answer.success
        /\ "images.build" \notin ops
        /\ answer.error_message =
              IF "raised" \in ops THEN "Build failed" ELSE "Base image not found"

\* C15 witness: a build-path install on a missing source image has returned
\* the image-not-found failure.
C15_Witness ==
    /\ InstallReturned(TRUE)
    /\ SourceMissing
    /\ answer.error_message = "Base image not found"

\* the positions of _install_package_in_container
InPlace == {"containers.list", "exec_run"}

\* C16: install_package with build_new_image=false creates and starts no
\* container (no step of it changes the containers of the engine but for the
\* package installed in the one it picked); when the list finds no running
\* container with the image as ancestor the call returns success=false there
\* and then, with no command run; and a command is run only in a container
\* that is running and has the image as ancestor.
C16_InPlaceNeedsRunningContainer ==
    [][/\ (pc \in InPlace /\ pc' # pc) =>
             /\ DOMAIN running' = DOMAIN running
             /\ \A c \in DOMAIN running :
                   /\ running'[c].state = running[c].state
                   /\ running'[c].image = running[c].image
                   /\ running'[c].installed # running[c].installed =>
                         /\ c = picked
                         /\ pc = "exec_run"
                         /\ running[c].state = "running"
                         /\ IsAncestor(call.image_id, running[c].image)
       /\ (/\ pc = "containers.list"
           /\ pc' # pc
           /\ \A c \in DOMAIN running :
                 running[c].state = "running"
                    => ~IsAncestor(call.image_id, running[c].image)) =>
             /\ pc' = "answered"
             /\ ~answer'.success
             /\ "exec_run" \notin ops'
       /\ (pc = "containers.list" /\ pc' = "exec_run") =>
             /\ running[picked'].state = "running"
             /\ IsAncestor(call.image_id, running[picked'].image)
      ]_vars

\* C16 witness: an in-place install found no running container and returned.
C16_Witness ==
    /\ InstallReturned(FALSE)
    /\ ops = {"containers.list"}
    /\ picked = ""
    /\ ~answer.success

\* C17: a call with build_new_image=true makes no container call, a call
\* with build_new_image=false makes no image call and leaves the images and
\* tags as they were, and the response carries a new_image_id exactly when
\* build_new_image=true and the call succeeded.
C17_PathsExclusive ==
    (pc = "answered" /\ call.op = "install_package") =>
        /\ call.build_new_image => ops \cap {"containers.list", "exec_run"} = {}
        /\ ~call.build_new_image =>
              /\ ops \cap {"images.get", "images.build"} = {}
              /\ images = before.images
              /\ tagged = before.tagged
        /\ answer.new_image_id # NoImage <=> (call.build_new_image /\ answer.success)

\* C17 witness: both paths have succeeded, one with a new image and one with
\* a package installed in a container.
C17_Witness ==
    /\ InstallReturned(TRUE)
    /\ answer.success
    /\ answer.new_image_id \in DOMAIN images
    /\ \E c \in DOMAIN running : running[c].installed # {}

\* C18: create_image and install_package return a response whatever the
\* engine does: after a call of images.get, images.build, containers.list or
\* exec_run that raised, the response has success=false; every response with
\* success=false has an error message; and a create_image response with
\* success=true has an image id.
C18_FaultsBecomeFailures ==
    (pc = "answered" /\ answer.kind # "422") =>
        /\ answer.kind \in {"CreateImageResponse", "InstallPackageResponse"}
        /\ "raised" \in ops => ~answer.success
        /\ ~answer.success => answer.error_message # None
        /\ (answer.kind = "CreateImageResponse" /\ answer.success) =>
              answer.image_id \in DOMAIN images

\* C18 witness: an engine call of install_package raised and the call has
\* returned.
C18_Witness ==
    /\ pc = "answered"
    /\ call.op = "install_package"
    /\ "raised" \in ops
    /\ ~answer.success

\* C19: the failure response of a create_image whose build failed after the
\* engine had produced log lines carries those lines.
C19_FailedBuildCarriesLogs ==
    (/\ pc = "answered"
     /\ answer.kind = "CreateImageResponse"
     /\ ~answer.success
     /\ "images.build" \in ops
     /\ produced # << >>) => answer.build_logs = produced

\* C20: create_image is entered only with a request that has a language, and
\* a body with no language is answered 422 with no engine call made.
C20_EmptyLanguagesRejected ==
    /\ call.op = "create_image" => call.languages # << >>
    /\ (pc = "answered" /\ answer.kind = "422") =>
          /\ call = NoCall
          /\ ops = {}

\* C20 witness: a body with the empty language list has been answered 422.
C20_Witness ==
    /\ pc = "answered"
    /\ answer.kind = "422"
    /\ answer.input = << >>


\* C21: ResourceLimits is constructed exactly for memory_mb in 64..8192 and
\* timeout_seconds in 10..3600; for any other value the construction raises,
\* there is no request, and no handler runs and no container is created.
C21_LimitsAcceptedExactlyInRange ==
    given.kind = "ResourceLimits" =>
        /\ made.kind = "ResourceLimits" <=>
              /\ given.memory_mb \in 64..8192
              /\ given.timeout_seconds \in 10..3600
        /\ made.kind # "ResourceLimits" =>
              /\ made.kind = "ValidationError"
              /\ pc = "idle"
              /\ created = 0
        /\ made.kind = "ResourceLimits" =>
              /\ made.memory_mb = given.memory_mb
              /\ made.timeout_seconds = given.timeout_seconds

\* C21 witness: the bounds 64 and 3600 have been accepted.
C21_Witness ==
    /\ given.kind = "ResourceLimits"
    /\ given.memory_mb = 64
    /\ given.timeout_seconds = 3600
    /\ made.kind = "ResourceLimits"

\* C22: create_image builds from the Dockerfile of the project whenever
\* there is one, whatever the request carries; with none, from the
\* custom_dockerfile of the request when it has one; and from the generated
\* Dockerfile only when there is neither.
C22_DockerfilePrecedence ==
    given.kind = "create_image" =>
        LET dockerfile == made.dockerfile
            override == given.custom \notin {None, ""}
        IN /\ given.project # None =>
                 dockerfile.source = "project" /\ dockerfile.text = given.project
           /\ (given.project = None /\ override) =>
                 dockerfile.source = "custom" /\ dockerfile.text = given.custom
           /\ dockerfile.source = "generated" <=> (given.project = None /\ ~override)

\* C22 witness: the project has a Dockerfile, the request carries an
\* override, and the Dockerfile of the project has been chosen.
C22_Witness ==
    /\ given.kind = "create_image"
    /\ given.project # None
    /\ given.custom = "custom Dockerfile"
    /\ made.dockerfile.source = "project"

\* the blocks of a generated Dockerfile
BlocksOf(dockerfile) == {dockerfile.blocks[i] : i \in DOMAIN dockerfile.blocks}

\* the toolchain-installation block of a language
ToolchainBlock(language) ==
    CASE language = "python" -> "Install Python"
      [] language = "node" -> "Install Node.js"
      [] language = "csharp" -> "Install .NET SDK"
      [] language = "bash" -> "Install bash"

\* C23: a generated Dockerfile has the toolchain block of every language
\* requested, python, node, csharp and bash alike, and of no other language.
C23_ToolchainBlockPerLanguage ==
    (given.kind = "create_image" /\ made.dockerfile.source = "generated") =>
        \A language \in Languages :
            language \in given.languages
                <=> ToolchainBlock(language) \in BlocksOf(made.dockerfile)

\* C24: while execute_uploaded_file runs execute_code for an uploaded file, the
\* request it submitted carries exactly the content and the language that
\* were uploaded under that file id.
C24_SubmitsUploadedContent ==
    caller = "file" =>
        /\ file_reply.file_id \in DOMAIN uploaded
        /\ submitted.code = uploaded[file_reply.file_id].content
        /\ submitted.language = uploaded[file_reply.file_id].language

\* the file id is not that of a stored upload: none was made under it, or
\* delete_file has returned true for it
Missing(file_id) == file_id \notin DOMAIN uploaded \/ uploaded[file_id].deleted

C26_FileStoreRoundTrip ==
    \A file_id \in FileIds :
        /\ ~Missing(file_id) =>
               /\ GetFile(file_id).found
               /\ GetFile(file_id).filename = uploaded[file_id].filename
               /\ GetFile(file_id).content = uploaded[file_id].content
        /\ (file_id \in DOMAIN uploaded /\ uploaded[file_id].deleted) =>
               ~GetFile(file_id).found
        /\ Missing(file_id) =>
               DeleteFileOutcome(file_id) = [files |-> files, ok |-> FALSE]

\* C27: for a language value outside the four, command synthesis raises instead
\* of giving a command: the execute_code call never gets past it to
\* containers.create, holds no container, and returns a failed record that
\* carries the error.
C27_UnsupportedLanguageFails ==
    (caller # "none" /\ request \notin Languages) =>
        /\ pc \in {"prepare", "returned"}
        /\ container = 0
        /\ pc = "returned" =>
               /\ response.status = "failed"
               /\ response.error_message = "Unsupported language"
               /\ fault = "Unsupported language"

\* the call with the unvalidated language has returned, after another call had
\* created a container
C27_Witness ==
    /\ pc = "returned"
    /\ caller = "direct"
    /\ request = UnvalidatedLanguage
    /\ response.status = "failed"
    /\ created > 0

InEngineCall ==
    /\ caller # "none"
    /\ pc \in {"start", "exec", "stop", "remove"}
    /\ execution_id \in DOMAIN active_containers
    /\ active_containers[execution_id] = container

\* C29: while an execution is at an engine call, with its container registered,
\* other requests can take steps: a progress query can be served, or another
\* execution can be started or can enter execute_code.
C29_OthersProgressDuringEngineCall ==
    InEngineCall =>
        \/ ENABLED (\E id \in StreamIds : GetExecutionProgress(id))
        \/ ENABLED (\E t \in 1..MaxStreams : MonitorBegin(t))
        \/ ENABLED (\E id \in StreamIds, language \in RequestLanguages :
                       StartStreamingExecution(id, language))

\* the running call's container is registered under the call's execution id
Registered ==
    /\ execution_id \in DOMAIN active_containers
    /\ active_containers[execution_id] = container

\* C30: within one execute_code call the operations come in the order create,
\* register, start, exec_run, stop, remove, unregister.  At each position of
\* the call the operations before it have taken effect and none after it has:
\* before create the call holds no container; the container is registered
\* only once created, started only once registered, exec_run has a result only
\* in a started container, the container is stopped and removed only with that
\* result at hand, and it is unregistered last.
C30_StrictOrder ==
    caller # "none" =>
        /\ pc \in {"prepare", "create"} => container = 0 /\ execution_id = NoExecId
        /\ pc = "register" =>
               /\ container \in DOMAIN containers
               /\ containers[container].state = "created"
               /\ execution_id = NoExecId
        /\ pc = "start" =>
               /\ Registered
               /\ containers[container].state = "created"
               /\ result = NoResult
        /\ pc = "exec" =>
               /\ Registered
               /\ containers[container].state = "running"
               /\ result = NoResult
        /\ pc = "stop" =>
               /\ Registered
               /\ containers[container].state = "running"
               /\ result # NoResult
        /\ pc = "remove" =>
               /\ Registered
               /\ containers[container].state = "exited"
               /\ result # NoResult
        /\ pc = "unregister" =>
               /\ Registered
               /\ container \notin DOMAIN containers
               /\ result # NoResult

\* a call has gone through the whole sequence and is about to unregister
C30_Witness ==
    /\ caller = "endpoint"
    /\ pc = "unregister"
    /\ Registered
    /\ result # NoResult
    /\ container \notin DOMAIN containers

\* C31: any two invocations of command synthesis for python or node name
\* different temp files, also when both are made within one clock second.
C31_TempFilesDistinct ==
    \A i \in DOMAIN Commands, j \in DOMAIN Commands :
        (i # j /\ Commands[i].language \in {"python", "node"}
               /\ Commands[j].language \in {"python", "node"}) =>
            Commands[i].makes # Commands[j].makes

\* C40: the csharp command of one synthesis call names one directory: the one
\* it makes, the one it enters and the one it removes are the same path, also
\* when the clock second advances during the call.
C40_CsharpOneDirectory ==
    \A i \in DOMAIN Commands :
        Commands[i].language = "csharp" =>
            /\ Commands[i].uses = Commands[i].makes
            /\ Commands[i].removes = Commands[i].makes

\* C36: the container is created with networking enabled exactly when the
\* request's resource_limits.network_enabled is true.
C36_NetworkFollowsLimits ==
    made.kind = "kwargs" =>
        (made.kwargs.network_disabled <=> ~given.resource_limits.network_enabled)

\* C32: a create_image call that supplies no image name is built under a
\* generated tag that no earlier build was given, also within one clock
\* second; a call that supplies a name is built under exactly that name.
C32_GeneratedTagsDistinct ==
    [][(pc = "create_image.build" /\ images' # images) =>
          IF call.image_name \in {None, ""}
             THEN ImageTag(call.image_name) \notin DOMAIN tagged
             ELSE /\ answer'.image_name.name = call.image_name
                  /\ tagged'[answer'.image_name] \in DOMAIN images' \ DOMAIN images]_vars

\* C33: for a started streaming execution the log stream does not come to its
\* end, by return or by exception, without the last event it emitted having
\* carried the terminal status (completed or failed) with the response.
C33_StreamEndsWithTerminalEvent ==
    (log_pc \in {"ended", "raised"} /\ log_id \in DOMAIN streaming_executions) =>
        log_last \in {"completed", "failed"}

\* C34: when shutdown has run, stop and remove have been attempted for every
\* container that was in active_containers, no failure has been raised out of
\* shutdown, and active_containers is empty.
C34_ShutdownDrainsRegistry ==
    made.kind = "shutdown" =>
        /\ ~made.raised
        /\ \A k \in DOMAIN given.active_containers :
               made.outcome[k] \in {"stopped and removed", "remove raised"}
        /\ active_containers = EmptyDict

\* the uploads that were made and that delete_file has not returned true for
StoredIds == {file_id \in DOMAIN uploaded : ~uploaded[file_id].deleted}

\* C35: after any sequence of uploads and deletes, list_files returns exactly
\* one entry for each uploaded and not deleted file, carrying its file_id, and
\* total_count is the number of those files.
C35_ListMatchesStore ==
    /\ \A file_id \in StoredIds :
           Cardinality({p \in DOMAIN ListFiles.files :
                           ListFiles.files[p].file_id = file_id}) = 1
    /\ \A p \in DOMAIN ListFiles.files : ListFiles.files[p].file_id \in StoredIds
    /\ ListFiles.total_count = Cardinality(StoredIds)

\* C37: the request GET /files/stats is dispatched to the handler of the file
\* statistics, not to the handler of GET /files/{file_id} with file_id "stats".
C37_StatsRouteReached ==
    (given.kind = "request" /\ given.method = "GET"
        /\ given.path = <<"files", "stats">>) =>
        made.handler = "get_file_stats"

\* C38: once the file-execute endpoint has returned the response of an
\* execution that ran in a container, the execution id in it can be
\* retrieved: GET /executions/{execution_id} answers with its record, not
\* with 404.
C38_ReturnedIdIsRetrievable ==
    (file_reply.kind = "execute" /\ pc = "idle"
        /\ file_reply.response.execution_id.tag \in IdPrefixes) =>
        ExecutionResult(file_reply.response.execution_id).kind = "result"

\* C39: the CLI's exec command, run for an execution the server reports as
\* completed, ends in "Execution completed", never in "Execution failed to
\* start".
C39_CliReportsCompletion ==
    (made.kind = "cli" /\ given.result.status = "completed") =>
        made.outcome = "Execution completed"

====
